---- MODULE Spec2Model ----
(***************************************************************************)
(* EdgeSec python utilities: TrafficAnalyzer (log_analyzer.py) and         *)
(* RuleSimulator (simulation.py).                                          *)
(*                                                                         *)
(* Text (paths, queries, user agents, rule expressions) is a sequence of   *)
(* one-character strings, so that substring tests, lower() and the regex   *)
(* searches are computed character by character.  A log entry and a rule   *)
(* are functions from the keys that are present to their values, so that   *)
(* dict.get(key, default) is computed as in python.                        *)
(***************************************************************************)
EXTENDS Integers, Sequences, FiniteSets, TLC

(***************************************************************************)
(* Bounds of the model.                                                    *)
(***************************************************************************)
\* longest corpus (number of log entries handed to a constructor)
MaxLogs == 3
\* most invocations of analyze() / simulate() on one object (ReuseSpec)
MaxCalls == 2

(***************************************************************************)
(* Python text primitives.                                                 *)
(***************************************************************************)
UpperToLower ==
    [A |-> "a", B |-> "b", C |-> "c", D |-> "d", E |-> "e", F |-> "f",
     G |-> "g", H |-> "h", I |-> "i", J |-> "j", K |-> "k", L |-> "l",
     M |-> "m", N |-> "n", O |-> "o", P |-> "p", Q |-> "q", R |-> "r",
     S |-> "s", T |-> "t", U |-> "u", V |-> "v", W |-> "w", X |-> "x",
     Y |-> "y", Z |-> "z"]

\* str.lower(), character by character
Lower(s) ==
    [i \in 1..Len(s) |-> IF s[i] \in DOMAIN UpperToLower THEN UpperToLower[s[i]] ELSE s[i]]

\* python `sub in s`
Contains(s, sub) ==
    \E i \in 1..(Len(s) - Len(sub) + 1) : SubSeq(s, i, i + Len(sub) - 1) = sub

\* any(p in s for p in subs)
ContainsAny(s, subs) == \E sub \in subs : Contains(s, sub)

Digits == {"0", "1", "2", "3", "4", "5", "6", "7", "8", "9"}

\* regex \w on ASCII text
IsWordChar(c) ==
    \/ c \in DOMAIN UpperToLower
    \/ c \in {UpperToLower[u] : u \in DOMAIN UpperToLower}
    \/ c \in Digits
    \/ c = "_"

\* regex \s on ASCII text
IsSpace(c) == c \in {" ", "\t", "\n", "\r"}

\* regex \bword\b at position i of s (word consists of word characters)
WordAt(s, i, word) ==
    /\ i >= 1
    /\ i + Len(word) - 1 <= Len(s)
    /\ SubSeq(s, i, i + Len(word) - 1) = word
    /\ (i = 1 \/ ~IsWordChar(s[i - 1]))
    /\ (i + Len(word) - 1 = Len(s) \/ ~IsWordChar(s[i + Len(word)]))

\* position after a maximal run of \s starting at i (the token that follows \s*
\* in the patterns below is never whitespace, so the greedy run is the only match)
RECURSIVE SkipSpace(_, _)
SkipSpace(s, i) ==
    IF i <= Len(s) /\ IsSpace(s[i]) THEN SkipSpace(s, i + 1) ELSE i

CharAt(s, i, chars) == i >= 1 /\ i <= Len(s) /\ s[i] \in chars

(***************************************************************************)
(* TrafficAnalyzer.PATTERNS                                                *)
(***************************************************************************)
\* r'\.\.[/\\]|\.\.%2[fF]|%2e%2e'   (case-sensitive)
Re_path_traversal(t) ==
    ContainsAny(t, { <<".", ".", "/">>, <<".", ".", "\\">>,
                     <<".", ".", "%", "2", "f">>, <<".", ".", "%", "2", "F">>,
                     <<"%", "2", "e", "%", "2", "e">> })

SqlVerbs ==
    { <<"u", "n", "i", "o", "n">>, <<"s", "e", "l", "e", "c", "t">>,
      <<"i", "n", "s", "e", "r", "t">>, <<"d", "r", "o", "p">>,
      <<"d", "e", "l", "e", "t", "e">>, <<"u", "p", "d", "a", "t", "e">> }

SqlObjects ==
    { <<"f", "r", "o", "m">>, <<"w", "h", "e", "r", "e">>, <<"t", "a", "b", "l", "e">> }

Quotes == {"'", "\""}

\* (\bunion\b|...|\bupdate\b).+(\bfrom\b|\bwhere\b|\btable\b) on lower-cased text
SqlKeywordPair(l) ==
    \E i \in 1..Len(l), v \in SqlVerbs :
        /\ WordAt(l, i, v)
        /\ \E j \in (i + Len(v) + 1)..Len(l), o \in SqlObjects :
              /\ WordAt(l, j, o)
              /\ \A k \in (i + Len(v))..(j - 1) : l[k] # "\n"

\* [\'\"]\s*(or|and)\s*[\'\"]\s*=\s*[\'\"] on lower-cased text
SqlTautology(l) ==
    \E i \in 1..Len(l), w \in { <<"o", "r">>, <<"a", "n", "d">> } :
        /\ l[i] \in Quotes
        /\ LET a == SkipSpace(l, i + 1)
               b == SkipSpace(l, a + Len(w))
               c == SkipSpace(l, b + 1)
               d == SkipSpace(l, c + 1)
           IN  /\ a + Len(w) - 1 <= Len(l)
               /\ SubSeq(l, a, a + Len(w) - 1) = w
               /\ CharAt(l, b, Quotes)
               /\ CharAt(l, c, {"="})
               /\ CharAt(l, d, Quotes)

\* sql_injection, re.IGNORECASE
Re_sql_injection(t) == SqlKeywordPair(Lower(t)) \/ SqlTautology(Lower(t))

\* r'<script|javascript:|onerror=|onload=', re.IGNORECASE
Re_xss(t) ==
    ContainsAny(Lower(t),
        { <<"<", "s", "c", "r", "i", "p", "t">>,
          <<"j", "a", "v", "a", "s", "c", "r", "i", "p", "t", ":">>,
          <<"o", "n", "e", "r", "r", "o", "r", "=">>,
          <<"o", "n", "l", "o", "a", "d", "=">> })

\* a shell metacharacter ; & | $ ( ) or the grave accent (written "backtick": the
\* character cannot occur in a string here), or \bsh\b|\bbash\b|\bexec\b, re.IGNORECASE
Re_command_injection(t) ==
    \/ \E i \in 1..Len(t) : t[i] \in {";", "&", "|", "backtick", "$", "(", ")"}
    \/ \E i \in 1..Len(t), w \in { <<"s", "h">>, <<"b", "a", "s", "h">>, <<"e", "x", "e", "c">> } :
          WordAt(Lower(t), i, w)

\* r'<!ENTITY|SYSTEM|PUBLIC', re.IGNORECASE
Re_xxe(t) ==
    ContainsAny(Lower(t),
        { <<"<", "!", "e", "n", "t", "i", "t", "y">>,
          <<"s", "y", "s", "t", "e", "m">>,
          <<"p", "u", "b", "l", "i", "c">> })

\* the keys of PATTERNS in the order the dict literal lists them
PatternNames == <<"path_traversal", "sql_injection", "xss", "command_injection", "xxe">>

\* PATTERNS[name].search(t)
PatternSearch(name, t) ==
    CASE name = "path_traversal"    -> Re_path_traversal(t)
      [] name = "sql_injection"     -> Re_sql_injection(t)
      [] name = "xss"               -> Re_xss(t)
      [] name = "command_injection" -> Re_command_injection(t)
      [] name = "xxe"               -> Re_xxe(t)

(***************************************************************************)
(* dict.get and the insertion-ordered counters (Counter, defaultdict(int)) *)
(***************************************************************************)
\* d.get(k, default)
Get(d, k, default) == IF k \in DOMAIN d THEN d[k] ELSE default

\* A counter is the sequence of its [k, n] items in insertion order.
Keys(c) == {c[i].k : i \in 1..Len(c)}

\* c[k] of a Counter: 0 for a key that was never counted
Count(c, k) ==
    IF k \in Keys(c) THEN c[CHOOSE i \in 1..Len(c) : c[i].k = k].n ELSE 0

\* c[k] += 1: a new key is inserted at the end, an old one keeps its place
Increment(c, k) ==
    IF k \in Keys(c)
    THEN [i \in 1..Len(c) |-> IF c[i].k = k THEN [k |-> k, n |-> c[i].n + 1] ELSE c[i]]
    ELSE Append(c, [k |-> k, n |-> 1])

\* sum(c.values()), added up by halves
RECURSIVE SumValues(_)
SumValues(c) ==
    IF c = <<>> THEN 0
    ELSE IF Len(c) = 1 THEN c[1].n
    ELSE SumValues(SubSeq(c, 1, Len(c) \div 2))
            + SumValues(SubSeq(c, Len(c) \div 2 + 1, Len(c)))

\* position of the item with the highest count; among equal counts, the one counted
\* first (most_common keeps the insertion order of equal counts)
FirstLargest(c) ==
    CHOOSE i \in 1..Len(c) :
        \A j \in 1..Len(c) : c[j].n < c[i].n \/ (c[j].n = c[i].n /\ j >= i)

\* Counter.most_common(n): the n items with the highest counts, highest first
RECURSIVE MostCommon(_, _)
MostCommon(c, n) ==
    IF n = 0 \/ c = <<>> THEN <<>>
    ELSE <<c[FirstLargest(c)]>>
            \o MostCommon(SubSeq(c, 1, FirstLargest(c) - 1)
                            \o SubSeq(c, FirstLargest(c) + 1, Len(c)), n - 1)

(***************************************************************************)
(* Arithmetic on rates.  A percentage p is kept in hundredths (p * 100),   *)
(* which is what round(p, 2) leaves of it.                                 *)
(***************************************************************************)
\* what num / den leaves when den = 0: the exception, which no rate equals
ZeroDivisionError == -1

\* round(num / den * 100, 2) in hundredths of a percent, ties to even
RoundPct(num, den) ==
    IF den = 0 THEN ZeroDivisionError
    ELSE LET q == (num * 10000) \div den
             r == (num * 10000) % den
         IN  IF 2 * r > den \/ (2 * r = den /\ q % 2 = 1) THEN q + 1 ELSE q

(***************************************************************************)
(* RuleSimulator: expression evaluation and the heuristics it uses         *)
(***************************************************************************)
\* _calculate_mock_threat_score
MockThreatScore(log) ==
    LET path == Lower(Get(log, "path", <<>>))
        user_agent == Lower(Get(log, "userAgent", <<>>))
    IN  (IF ContainsAny(path, { <<"a", "d", "m", "i", "n">>, <<"w", "p", "-">>,
                                <<"p", "h", "p", "m", "y", "a", "d", "m", "i", "n">>,
                                <<".", "e", "n", "v">> })
         THEN 20 ELSE 0)
      + (IF Get(log, "statusCode", 200) >= 400 THEN 10 ELSE 0)
      + (IF ContainsAny(user_agent, { <<"b", "o", "t">>, <<"c", "u", "r", "l">> })
         THEN 15 ELSE 0)

\* _calculate_mock_bot_score
MockBotScore(log) ==
    LET user_agent == Lower(Get(log, "userAgent", <<>>))
    IN  IF ContainsAny(user_agent, { <<"b", "o", "t">>, <<"c", "r", "a", "w", "l", "e", "r">>,
                                     <<"s", "p", "i", "d", "e", "r">> })
        THEN 10
        ELSE IF ContainsAny(user_agent, { <<"c", "u", "r", "l">>, <<"w", "g", "e", "t">> })
        THEN 5
        ELSE IF Len(user_agent) < 20
        THEN 25
        ELSE 80

IsUpper(c) == c \in DOMAIN UpperToLower

\* re.search(r'eq "([A-Z]{2})"', expression): the positions where the pattern matches
CountryMatches(expression) ==
    { i \in 1..(Len(expression) - 6) :
        /\ SubSeq(expression, i, i + 3) = <<"e", "q", " ", "\"">>
        /\ IsUpper(expression[i + 4])
        /\ IsUpper(expression[i + 5])
        /\ expression[i + 6] = "\"" }

\* country_match.group(1) of the leftmost match
TargetCountry(expression) ==
    LET i == CHOOSE m \in CountryMatches(expression) :
                 \A o \in CountryMatches(expression) : m <= o
    IN  expression[i + 4] \o expression[i + 5]

\* FullUrl that leaves the query out
FullUrl_PathOnly(log) == Lower(Get(log, "path", <<>>)) \o <<"?">>

\* f"{path}?{query}" of the lower-cased path and query
FullUrl(log) ==
    Lower(Get(log, "path", <<>>)) \o <<"?">> \o Lower(Get(log, "query", <<>>))

\* TraversalFamily without the test of the expression: every rule blocks traversal
TraversalFamily_AnyExpression(expression, log) ==
    ContainsAny(FullUrl(log), { <<".", ".">>, <<"%", "2", "e", "%", "2", "e">> })

\* _evaluate_expression: the six fragment families, tried in turn
TraversalFamily(expression, log) ==
    /\ ContainsAny(expression,
          { <<"c", "o", "n", "t", "a", "i", "n", "s", " ", "\"", ".", ".", "\"">>,
            <<"c", "o", "n", "t", "a", "i", "n", "s", " ", "\"", "%", "2", "e", "%", "2", "e", "\"">> })
    /\ ContainsAny(FullUrl(log), { <<".", ".">>, <<"%", "2", "e", "%", "2", "e">> })

SqlFamily(expression, log) ==
    /\ ContainsAny(expression,
          { <<"u", "n", "i", "o", "n", " ", "s", "e", "l", "e", "c", "t">>,
            <<"d", "r", "o", "p", " ", "t", "a", "b", "l", "e">> })
    /\ ContainsAny(FullUrl(log),
          { <<"u", "n", "i", "o", "n", " ", "s", "e", "l", "e", "c", "t">>,
            <<"d", "r", "o", "p", " ", "t", "a", "b", "l", "e">>,
            <<"'", " ", "o", "r", " ", "'", "1", "'", "=", "'", "1">> })

XssFamily(expression, log) ==
    /\ ContainsAny(expression,
          { <<"<", "s", "c", "r", "i", "p", "t">>,
            <<"j", "a", "v", "a", "s", "c", "r", "i", "p", "t", ":">> })
    /\ ContainsAny(FullUrl(log),
          { <<"<", "s", "c", "r", "i", "p", "t">>,
            <<"j", "a", "v", "a", "s", "c", "r", "i", "p", "t", ":">>,
            <<"o", "n", "e", "r", "r", "o", "r", "=">> })

ThreatFamily(expression, log) ==
    /\ Contains(expression,
          <<"c", "f", ".", "t", "h", "r", "e", "a", "t", "_", "s", "c", "o", "r", "e">>)
    /\ Contains(expression, <<"g", "t", " ", "1", "0">>)
    /\ MockThreatScore(log) > 10

BotFamily(expression, log) ==
    /\ Contains(expression,
          <<"c", "f", ".", "b", "o", "t", "_", "m", "a", "n", "a", "g", "e", "m", "e", "n", "t",
            ".", "s", "c", "o", "r", "e">>)
    /\ Contains(expression, <<"l", "t", " ", "3", "0">>)
    /\ MockBotScore(log) < 30

\* log.get('country') is None for an entry without the key: equal to no target
CountryFamily(expression, log) ==
    /\ Contains(expression,
          <<"i", "p", ".", "g", "e", "o", "i", "p", ".", "c", "o", "u", "n", "t", "r", "y">>)
    /\ CountryMatches(expression) # {}
    /\ "country" \in DOMAIN log
    /\ log["country"] = TargetCountry(expression)

EvaluateExpression(expression, log) ==
    \/ TraversalFamily(expression, log)
    \/ SqlFamily(expression, log)
    \/ XssFamily(expression, log)
    \/ ThreatFamily(expression, log)
    \/ BotFamily(expression, log)
    \/ CountryFamily(expression, log)

\* re.search(r'\d+\.\d+', user_agent)
HasVersionNumber(user_agent) ==
    \E i \in 2..(Len(user_agent) - 1) :
        /\ user_agent[i] = "."
        /\ user_agent[i - 1] \in Digits
        /\ user_agent[i + 1] \in Digits

\* _is_potential_false_positive
IsPotentialFalsePositive(log) ==
    LET path == Get(log, "path", <<>>)
        status == Get(log, "statusCode", 200)
        user_agent == Get(log, "userAgent", <<>>)
    IN  \/ /\ status = 200
           /\ ContainsAny(path, { <<"/", "a", "p", "i", "/">>,
                                  <<"/", "s", "t", "a", "t", "i", "c", "/">>,
                                  <<"/", "a", "s", "s", "e", "t", "s", "/">> })
        \/ /\ ContainsAny(user_agent, { <<"C", "h", "r", "o", "m", "e", "/">>,
                                        <<"F", "i", "r", "e", "f", "o", "x", "/">>,
                                        <<"S", "a", "f", "a", "r", "i", "/">> })
           /\ HasVersionNumber(user_agent)

(***************************************************************************)
(* TrafficAnalyzer: classification of one entry                            *)
(***************************************************************************)
\* _is_bot
IsBot(user_agent) ==
    \/ ContainsAny(Lower(user_agent),
          { <<"b", "o", "t">>, <<"c", "r", "a", "w", "l", "e", "r">>,
            <<"s", "p", "i", "d", "e", "r">>, <<"s", "c", "r", "a", "p", "e", "r">>,
            <<"c", "u", "r", "l">>, <<"w", "g", "e", "t">> })
    \/ Len(user_agent) < 10

(***************************************************************************)
(* Inputs.  A timestamp text is kept as what datetime.fromisoformat makes  *)
(* of it: an instant t ("iso"), a ValueError ("text": not ISO-8601), or    *)
(* the empty string ("empty").  An address is its dotted quad.             *)
(***************************************************************************)
ChromeUA ==
    <<"M", "o", "z", "i", "l", "l", "a", "/", "5", ".", "0", " ",
      "C", "h", "r", "o", "m", "e", "/", "1", "2", "0", ".", "0">>

FirefoxUA ==
    <<"M", "o", "z", "i", "l", "l", "a", "/", "5", ".", "0", " ",
      "F", "i", "r", "e", "f", "o", "x", "/", "1", "1", "5", ".", "0">>

\* a browser request to an API path
LogBenign ==
    [timestamp |-> [kind |-> "iso", t |-> 10], clientIP |-> <<10, 0, 0, 1>>,
     path |-> <<"/", "a", "p", "i", "/", "v", "1">>, query |-> <<>>, method |-> "GET",
     statusCode |-> 200, country |-> "US", asn |-> "AS1", userAgent |-> ChromeUA]

\* /../etc fetched with curl
LogTraversal ==
    [timestamp |-> [kind |-> "iso", t |-> 25], clientIP |-> <<10, 0, 0, 2>>,
     path |-> <<"/", ".", ".", "/", "e", "t", "c">>, method |-> "GET",
     statusCode |-> 404, country |-> "CN", userAgent |-> <<"c", "u", "r", "l", "/", "8", ".", "1">>]

\* percent-encoded traversal in the query; no user agent, country or timestamp
LogEncoded ==
    [clientIP |-> <<10, 0, 0, 1>>, path |-> <<"/", "a">>,
     query |-> <<"%", "2", "e", "%", "2", "e">>, statusCode |-> 200]

\* drop table; in the query, empty timestamp
LogSql ==
    [timestamp |-> [kind |-> "empty"], clientIP |-> <<10, 0, 0, 3>>, path |-> <<"/", "q">>,
     query |-> <<"d", "r", "o", "p", " ", "t", "a", "b", "l", "e", ";">>, method |-> "POST",
     statusCode |-> 500, country |-> "CN", asn |-> "AS2", userAgent |-> FirefoxUA]

\* <script>system in the query, from a browser
LogXss ==
    [timestamp |-> [kind |-> "iso", t |-> 40], clientIP |-> <<10, 0, 0, 2>>, path |-> <<"/">>,
     query |-> <<"<", "s", "c", "r", "i", "p", "t", ">", "s", "y", "s", "t", "e", "m">>,
     statusCode |-> 200, country |-> "US", userAgent |-> FirefoxUA]

\* an entry with no field at all
LogEmpty == <<>>

\* an entry whose timestamp is not ISO-8601
LogBadTime ==
    [timestamp |-> [kind |-> "text"], clientIP |-> <<10, 0, 0, 3>>, path |-> <<"/">>,
     statusCode |-> 200, userAgent |-> ChromeUA]

LogEntries == {LogBenign, LogTraversal, LogEncoded, LogSql, LogXss, LogEmpty, LogBadTime}

\* number of distinct addresses of the volumetric corpus
VolumeHosts == 10
\* number of requests its first address sends
VolumeBurst == 10

\* a flood of scripted requests the origin answers with 503
HostEntry(h) ==
    [timestamp |-> [kind |-> "iso", t |-> h], clientIP |-> <<10, 0, 1, h>>, path |-> <<"/">>,
     statusCode |-> 503, country |-> "US",
     userAgent |-> <<"c", "u", "r", "l", "/", "8", ".", "1">>]

\* VolumeBurst requests of host 1, then one request of each other host
VolumeCorpus ==
    [i \in 1..(VolumeBurst + VolumeHosts - 1) |->
        IF i <= VolumeBurst THEN HostEntry(1) ELSE HostEntry(i - VolumeBurst + 1)]

\* the first `bursting` addresses send `burst` requests each, the next address sends
\* `count` requests, and each other of the `hosts` addresses sends one
BurstCorpus(bursting, burst, count, hosts) ==
    [i \in 1..(bursting * burst + count + hosts - bursting - 1) |->
        IF i <= bursting * burst THEN HostEntry((i - 1) \div burst + 1)
        ELSE IF i <= bursting * burst + count THEN HostEntry(bursting + 1)
        ELSE HostEntry(i - bursting * burst - count + bursting + 1)]

\* number of distinct addresses of the threshold corpus
ThresholdHosts == 60
\* number of its addresses that send a burst
ThresholdBursting == 6
\* number of requests of each burst: more than 5 times the average
ThresholdBurst == 15
\* number of requests its next address sends: 5 times the average
ThresholdCount == 13

\* ThresholdBursting addresses above 5 times the average, one at 5 times the average,
\* the others with one request each
ThresholdCorpus ==
    BurstCorpus(ThresholdBursting, ThresholdBurst, ThresholdCount, ThresholdHosts)

\* number of distinct addresses of the crowd corpus
CrowdHosts == 100
\* number of its addresses that send a burst
CrowdBursting == 11
\* number of requests of each burst
CrowdBurst == 10

\* more than 10 addresses above 5 times the average: the first CrowdBursting
\* addresses send CrowdBurst requests each, the others one each
CrowdCorpus == BurstCorpus(CrowdBursting - 1, CrowdBurst, CrowdBurst, CrowdHosts)

\* number of entries of the mixed corpus
MixTotal == 100
\* number of them that are traversal requests sent with curl
MixTraversal == 30
\* number of those the origin answers with 404
MixErrors == 20

\* browser requests to an API path with scripted traversal requests among them
MixCorpus ==
    [i \in 1..MixTotal |->
        IF i <= MixErrors THEN LogTraversal
        ELSE IF i <= MixTraversal THEN [LogTraversal EXCEPT !.statusCode = 200]
        ELSE LogBenign]

RECURSIVE SeqsUpTo(_, _)
SeqsUpTo(S, n) ==
    IF n = 0 THEN {<<>>}
    ELSE LET shorter == SeqsUpTo(S, n - 1)
         IN  shorter \cup {Append(q, e) : q \in {x \in shorter : Len(x) = n - 1}, e \in S}

Corpora == SeqsUpTo(LogEntries, MaxLogs) \cup {VolumeCorpus, ThresholdCorpus, CrowdCorpus, MixCorpus}

Rules ==
    { [expression |-> <<"u", "r", "i", " ", "c", "o", "n", "t", "a", "i", "n", "s", " ",
                        "\"", ".", ".", "\"">>,
       action |-> "block", description |-> "traversal"],
      [expression |-> <<"u", "r", "i", " ", "c", "o", "n", "t", "a", "i", "n", "s", " ",
                        "\"", "%", "2", "e", "%", "2", "e", "\"">>,
       action |-> "managed_challenge"],
      [expression |-> <<"u", "r", "i", " ", "c", "o", "n", "t", "a", "i", "n", "s", " ",
                        "\"", "d", "r", "o", "p", " ", "t", "a", "b", "l", "e", "\"">>,
       action |-> "challenge"],
      [expression |-> <<"u", "r", "i", " ", "c", "o", "n", "t", "a", "i", "n", "s", " ",
                        "\"", "<", "s", "c", "r", "i", "p", "t", "\"">>,
       action |-> "js_challenge"],
      [expression |-> <<"c", "f", ".", "t", "h", "r", "e", "a", "t", "_", "s", "c", "o", "r", "e",
                        " ", "g", "t", " ", "1", "0">>,
       action |-> "log"],
      [expression |-> <<"c", "f", ".", "b", "o", "t", "_", "m", "a", "n", "a", "g", "e", "m", "e",
                        "n", "t", ".", "s", "c", "o", "r", "e", " ", "l", "t", " ", "3", "0">>],
      [expression |-> <<"u", "r", "i", " ", "c", "o", "n", "t", "a", "i", "n", "s", " ",
                        "\"", ".", ".", "\"", " ", "o", "r", " ",
                        "i", "p", ".", "g", "e", "o", "i", "p", ".", "c", "o", "u", "n", "t", "r", "y",
                        " ", "e", "q", " ", "\"", "C", "N", "\"">>,
       action |-> "block"],
      [expression |-> <<"i", "p", ".", "g", "e", "o", "i", "p", ".", "c", "o", "u", "n", "t", "r", "y",
                        " ", "e", "q", " ", "\"", "U", "S", "\"">>,
       action |-> "allow"],
      [expression |-> <<"s", "s", "l">>, action |-> "block"],
      [expression |-> <<"u", "r", "i", " ", "C", "o", "n", "t", "a", "i", "n", "s", " ",
                        "\"", ".", ".", "\"">>,
       action |-> "block"],
      <<>> }

(***************************************************************************)
(* State                                                                   *)
(***************************************************************************)
VARIABLES
    pc,         \* position of main(): which call comes next
    logs,       \* self.logs
    rule,       \* self.rule (simulation.py)
    analysis,   \* TrafficAnalyzer.analysis
    results,    \* RuleSimulator.results
    idx,        \* position of the `for log in self.logs` loop that is running
    calls,      \* invocations of analyze() / simulate() completed on the object
    returned,   \* what each of those invocations returned, as it was on return
    report      \* what generate_report() returned

vars == <<pc, logs, rule, analysis, results, idx, calls, returned, report>>

\* python None
None == "None"

(***************************************************************************)
(* TrafficAnalyzer                                                         *)
(***************************************************************************)
\* the entries _calculate_time_window parses: `if log.get('timestamp')`
HasTimestamp(log) == "timestamp" \in DOMAIN log /\ log["timestamp"].kind # "empty"

\* datetime.fromisoformat raises ValueError on one of them
TimestampRaises(ls) ==
    \E i \in 1..Len(ls) : HasTimestamp(ls[i]) /\ ls[i]["timestamp"].kind # "iso"

\* _calculate_time_window, when no timestamp raises
CalculateTimeWindow(ls) ==
    LET timestamps == {ls[i]["timestamp"].t : i \in {j \in 1..Len(ls) : HasTimestamp(ls[j])}}
        lo == CHOOSE t \in timestamps : \A u \in timestamps : t <= u
        hi == CHOOSE t \in timestamps : \A u \in timestamps : t >= u
    IN  IF ls = <<>> \/ timestamps = {} THEN <<>>
        ELSE [start |-> lo, end |-> hi, duration_seconds |-> hi - lo]

\* the dict __init__ builds
NewAnalysis(ls) ==
    [total_requests |-> Len(ls),
     time_window |-> CalculateTimeWindow(ls),
     patterns |-> <<>>,
     ip_stats |-> <<>>,
     path_stats |-> <<>>,
     status_code_stats |-> <<>>,
     country_stats |-> <<>>,
     asn_stats |-> <<>>,
     user_agent_stats |-> <<>>,
     anomalies |-> <<>>,
     recommendations |-> <<>>]

\* the pattern loop of _analyze_log_entry, over PatternNames[n..]
RECURSIVE CountPatterns(_, _, _)
CountPatterns(patterns, log, n) ==
    IF n > Len(PatternNames) THEN patterns
    ELSE LET name == PatternNames[n]
             hit == \/ PatternSearch(name, Get(log, "path", <<>>))
                    \/ PatternSearch(name, Get(log, "query", <<>>))
         IN  CountPatterns(IF hit THEN Increment(patterns, name) ELSE patterns, log, n + 1)

\* AnalyzeLogEntryOp that counts a country only when the entry has one
AnalyzeLogEntryOp_SkipMissingCountry(a, log) ==
    [a EXCEPT
        !.ip_stats = Increment(@, Get(log, "clientIP", <<>>)),
        !.path_stats = Increment(@, Get(log, "path", <<>>)),
        !.status_code_stats = Increment(@, Get(log, "statusCode", 0)),
        !.country_stats = IF "country" \in DOMAIN log THEN Increment(@, log["country"]) ELSE @,
        !.asn_stats = Increment(@, Get(log, "asn", "Unknown")),
        !.patterns = CountPatterns(@, log, 1),
        !.user_agent_stats =
            Increment(@, IF IsBot(Get(log, "userAgent", <<>>)) THEN "bot" ELSE "human")]

\* _analyze_log_entry
AnalyzeLogEntryOp(a, log) ==
    [a EXCEPT
        !.ip_stats = Increment(@, Get(log, "clientIP", <<>>)),
        !.path_stats = Increment(@, Get(log, "path", <<>>)),
        !.status_code_stats = Increment(@, Get(log, "statusCode", 0)),
        !.country_stats = Increment(@, Get(log, "country", "Unknown")),
        !.asn_stats = Increment(@, Get(log, "asn", "Unknown")),
        !.patterns = CountPatterns(@, log, 1),
        !.user_agent_stats =
            Increment(@, IF IsBot(Get(log, "userAgent", <<>>)) THEN "bot" ELSE "human")]

\* PatternAnomalies with command_injection missing from the CRITICAL list
PatternAnomalies_SqlOnlyCritical(patterns, total) ==
    [i \in 1..Len(patterns) |->
        [type |-> patterns[i].k,
         count |-> patterns[i].n,
         percentage |-> RoundPct(patterns[i].n, total),
         severity |-> IF patterns[i].k \in {"sql_injection"} THEN "CRITICAL" ELSE "HIGH"]]

\* the pattern loop of _detect_anomalies: one anomaly per counted pattern, in the
\* order the patterns were first counted
PatternAnomalies(patterns, total) ==
    [i \in 1..Len(patterns) |->
        [type |-> patterns[i].k,
         count |-> patterns[i].n,
         percentage |-> RoundPct(patterns[i].n, total),
         severity |-> IF patterns[i].k \in {"sql_injection", "command_injection"}
                      THEN "CRITICAL" ELSE "HIGH"]]

\* DdosIps with >= in place of >: an address at 5 times the average is flagged too
DdosIps_AtLeast(ip_stats, total) ==
    LET Flagged(item) == item.n * Len(ip_stats) >= total * 5
        top_ips == MostCommon(ip_stats, 10)
        flagged == SelectSeq(top_ips, Flagged)
    IN  [i \in 1..Len(flagged) |-> [ip |-> flagged[i].k, requests |-> flagged[i].n]]

\* ddos_ips: the top addresses whose count exceeds 5 times the average
\* total / len(ip_stats), compared without dividing
DdosIps(ip_stats, total) ==
    LET Flagged(item) == item.n * Len(ip_stats) > total * 5
        top_ips == MostCommon(ip_stats, 10)
        flagged == SelectSeq(top_ips, Flagged)
    IN  [i \in 1..Len(flagged) |-> [ip |-> flagged[i].k, requests |-> flagged[i].n]]

DdosAnomalies(ip_stats, total) ==
    LET ddos_ips == DdosIps(ip_stats, total)
    IN  IF ddos_ips = <<>> THEN <<>>
        ELSE << [type |-> "potential_ddos",
                 count |-> Len(ddos_ips),
                 severity |-> "CRITICAL",
                 details |-> SubSeq(ddos_ips, 1, IF Len(ddos_ips) < 5 THEN Len(ddos_ips) ELSE 5)] >>

\* BotAnomalies with >= in place of >: a bot share of exactly 30% is a spike too
BotAnomalies_AtLeast(user_agent_stats, total) ==
    LET bot == Count(user_agent_stats, "bot")
    IN  IF total > 0 /\ bot * 100 >= 30 * total
        THEN << [type |-> "bot_spike", count |-> bot,
                 percentage |-> RoundPct(bot, total), severity |-> "MEDIUM"] >>
        ELSE <<>>

\* bot_percentage > 30, with bot_percentage = bot / total * 100 (0 when total = 0)
BotAnomalies(user_agent_stats, total) ==
    LET bot == Count(user_agent_stats, "bot")
    IN  IF total > 0 /\ bot * 100 > 30 * total
        THEN << [type |-> "bot_spike", count |-> bot,
                 percentage |-> RoundPct(bot, total), severity |-> "MEDIUM"] >>
        ELSE <<>>

\* sum of the counts of the status codes >= 400
ErrorCount(status_code_stats) ==
    LET IsError(item) == item.k >= 400 IN SumValues(SelectSeq(status_code_stats, IsError))

ErrorAnomalies(status_code_stats, total) ==
    LET error_count == ErrorCount(status_code_stats)
    IN  IF total > 0 /\ error_count * 100 > 20 * total
        THEN << [type |-> "high_error_rate", count |-> error_count,
                 percentage |-> RoundPct(error_count, total), severity |-> "MEDIUM"] >>
        ELSE <<>>

\* _detect_anomalies: appends to the anomalies the object already holds
DetectAnomaliesOp(a) ==
    [a EXCEPT !.anomalies =
        @ \o PatternAnomalies(a.patterns, a.total_requests)
          \o DdosAnomalies(a.ip_stats, a.total_requests)
          \o BotAnomalies(a.user_agent_stats, a.total_requests)
          \o ErrorAnomalies(a.status_code_stats, a.total_requests)]

\* RecommendationsFor with a final `else` that recommends logging for every other type
RecommendationsFor_ElseLog(anomaly) ==
    IF anomaly.type \in {"sql_injection", "xss", "path_traversal"}
    THEN << [for |-> anomaly.type, action |-> "block", rule_type |-> "waf_custom_rule",
             priority |-> "HIGH"] >>
    ELSE IF anomaly.type = "potential_ddos"
    THEN << [for |-> anomaly.type, action |-> "rate_limit", rule_type |-> "rate_limiting",
             priority |-> "CRITICAL",
             params |-> [rate |-> <<100, "requests per", 10, "seconds">>, scope |-> "ip.src"]] >>
    ELSE IF anomaly.type = "bot_spike"
    THEN << [for |-> anomaly.type, action |-> "challenge", rule_type |-> "bot_management",
             priority |-> "MEDIUM"] >>
    ELSE << [for |-> anomaly.type, action |-> "log", rule_type |-> "waf_custom_rule",
             priority |-> "MEDIUM"] >>

\* the recommendation _generate_recommendations appends for one anomaly, if any
RecommendationsFor(anomaly) ==
    IF anomaly.type \in {"sql_injection", "xss", "path_traversal"}
    THEN << [for |-> anomaly.type, action |-> "block", rule_type |-> "waf_custom_rule",
             priority |-> "HIGH"] >>
    ELSE IF anomaly.type = "potential_ddos"
    THEN << [for |-> anomaly.type, action |-> "rate_limit", rule_type |-> "rate_limiting",
             priority |-> "CRITICAL",
             params |-> [rate |-> <<100, "requests per", 10, "seconds">>, scope |-> "ip.src"]] >>
    ELSE IF anomaly.type = "bot_spike"
    THEN << [for |-> anomaly.type, action |-> "challenge", rule_type |-> "bot_management",
             priority |-> "MEDIUM"] >>
    ELSE <<>>

RECURSIVE RecommendationsOf(_)
RecommendationsOf(anomalies) ==
    IF anomalies = <<>> THEN <<>>
    ELSE RecommendationsFor(Head(anomalies)) \o RecommendationsOf(Tail(anomalies))

\* _generate_recommendations: appends to the recommendations the object already holds
GenerateRecommendationsOp(a) ==
    [a EXCEPT !.recommendations = @ \o RecommendationsOf(a.anomalies)]

\* the `for log in self.logs` loop of analyze, over the entries ls that are left
RECURSIVE AnalyzeLoop(_, _)
AnalyzeLoop(a, ls) ==
    IF ls = <<>> THEN a
    ELSE AnalyzeLoop(AnalyzeLogEntryOp(a, Head(ls)), Tail(ls))

\* TrafficAnalyzer(ls).analyze(): the result of an analyzer of its own, for a corpus
\* whose timestamps parse
Analyze(ls) ==
    GenerateRecommendationsOp(DetectAnomaliesOp(AnalyzeLoop(NewAnalysis(ls), ls)))

\* code points of the severity strings, which sorted() compares
SeverityKey(severity) ==
    CASE severity = "CRITICAL" -> <<67, 82, 73, 84, 73, 67, 65, 76>>
      [] severity = "HIGH"     -> <<72, 73, 71, 72>>
      [] severity = "MEDIUM"   -> <<77, 69, 68, 73, 85, 77>>

\* python str <
RECURSIVE StrLess(_, _)
StrLess(x, y) ==
    IF y = <<>> THEN FALSE
    ELSE IF x = <<>> THEN TRUE
    ELSE IF Head(x) # Head(y) THEN Head(x) < Head(y)
    ELSE StrLess(Tail(x), Tail(y))

\* sorted(anomalies, key=lambda x: x['severity'], reverse=True): stable
RECURSIVE InsertBySeverity(_, _)
InsertBySeverity(sorted, anomaly) ==
    IF sorted = <<>> THEN <<anomaly>>
    ELSE IF StrLess(SeverityKey(Head(sorted).severity), SeverityKey(anomaly.severity))
         THEN <<anomaly>> \o sorted
         ELSE <<Head(sorted)>> \o InsertBySeverity(Tail(sorted), anomaly)

RECURSIVE SortedBySeverity(_)
SortedBySeverity(anomalies) ==
    IF anomalies = <<>> THEN <<>>
    ELSE InsertBySeverity(SortedBySeverity(SubSeq(anomalies, 1, Len(anomalies) - 1)),
                          anomalies[Len(anomalies)])

\* TrafficAnalyzer.generate_report: the content of the report, section by section
AnalyzerReport(a) ==
    [total_requests |-> a.total_requests,
     unique_ips |-> Len(a.ip_stats),
     unique_paths |-> Len(a.path_stats),
     duration |-> Get(a.time_window, "duration_seconds", 0),
     anomalies |-> SortedBySeverity(a.anomalies),
     recommendations |-> a.recommendations,
     top_ips |-> MostCommon(a.ip_stats, 10)]

(***************************************************************************)
(* RuleSimulator                                                           *)
(***************************************************************************)
\* the dict __init__ builds
NewResults(ls) ==
    [total_requests |-> Len(ls),
     matched |-> 0,
     would_block |-> 0,
     would_challenge |-> 0,
     would_log |-> 0,
     matched_requests |-> <<>>,
     false_positive_candidates |-> <<>>]

\* the summary of a matched request
MatchedRequest(log) ==
    [timestamp |-> Get(log, "timestamp", None),
     ip |-> Get(log, "clientIP", None),
     path |-> Get(log, "path", None),
     method |-> Get(log, "method", None),
     statusCode |-> Get(log, "statusCode", None)]

\* the tally a matched request is counted into
ActionBucket(action) ==
    IF action = "block" THEN "would_block"
    ELSE IF action \in {"challenge", "js_challenge", "managed_challenge"} THEN "would_challenge"
    ELSE "would_log"

\* SimulateEntryOp with the false-positive test outside `if self._evaluate_expression`:
\* entries that did not match become candidates too
SimulateEntryOp_FpOutsideMatch(r, rl, log) ==
    LET expression == Get(rl, "expression", <<>>)
        action == Get(rl, "action", "log")
        counted ==
            IF EvaluateExpression(expression, log)
            THEN [r EXCEPT
                    !.matched = @ + 1,
                    ![ActionBucket(action)] = @ + 1,
                    !.matched_requests = Append(@, MatchedRequest(log))]
            ELSE r
    IN  [counted EXCEPT
            !.false_positive_candidates =
                IF IsPotentialFalsePositive(log) THEN Append(@, log) ELSE @]

\* SimulateEntryOp without the final `else`: an action that is neither block nor a
\* challenge is counted into no tally
SimulateEntryOp_NoElse(r, rl, log) ==
    LET expression == Get(rl, "expression", <<>>)
        action == Get(rl, "action", "log")
    IN  IF EvaluateExpression(expression, log)
        THEN [r EXCEPT
                !.matched = @ + 1,
                !.would_block = IF action = "block" THEN @ + 1 ELSE @,
                !.would_challenge =
                    IF action \in {"challenge", "js_challenge", "managed_challenge"}
                    THEN @ + 1 ELSE @,
                !.matched_requests = Append(@, MatchedRequest(log)),
                !.false_positive_candidates =
                    IF IsPotentialFalsePositive(log) THEN Append(@, log) ELSE @]
        ELSE r

\* the body of the `for log in self.logs` loop of simulate
SimulateEntryOp(r, rl, log) ==
    LET expression == Get(rl, "expression", <<>>)
        action == Get(rl, "action", "log")
    IN  IF EvaluateExpression(expression, log)
        THEN [r EXCEPT
                !.matched = @ + 1,
                ![ActionBucket(action)] = @ + 1,
                !.matched_requests = Append(@, MatchedRequest(log)),
                !.false_positive_candidates =
                    IF IsPotentialFalsePositive(log) THEN Append(@, log) ELSE @]
        ELSE r

\* MatchRate without the `if total > 0` guard
MatchRate_Unguarded(r) == RoundPct(r.matched, r.total_requests)

\* results['match_rate']
MatchRate(r) ==
    IF r.total_requests > 0 THEN RoundPct(r.matched, r.total_requests) ELSE 0

\* FalsePositiveRateEstimate that divides by the number of requests instead of the
\* number of matches
FalsePositiveRateEstimate_OverTotal(r) ==
    IF r.matched > 0 THEN RoundPct(Len(r.false_positive_candidates), r.total_requests) ELSE 0

\* results['false_positive_rate_estimate']
FalsePositiveRateEstimate(r) ==
    IF r.matched > 0 THEN RoundPct(Len(r.false_positive_candidates), r.matched) ELSE 0

\* "Calculate rates": the two keys are set (added on the first call)
CalculateRates(r) ==
    [k \in DOMAIN r \cup {"match_rate", "false_positive_rate_estimate"} |->
        IF k = "match_rate" THEN MatchRate(r)
        ELSE IF k = "false_positive_rate_estimate" THEN FalsePositiveRateEstimate(r)
        ELSE r[k]]

\* the `for log in self.logs` loop of simulate, over the entries ls that are left
RECURSIVE SimulateLoop(_, _, _)
SimulateLoop(r, rl, ls) ==
    IF ls = <<>> THEN r
    ELSE SimulateLoop(SimulateEntryOp(r, rl, Head(ls)), rl, Tail(ls))

\* RuleSimulator(ls, rl).simulate(): the result of a simulator of its own
Simulate(ls, rl) == CalculateRates(SimulateLoop(NewResults(ls), rl, ls))

\* RuleSimulator.generate_report: the content of the report
SimulatorReport(r, rl) ==
    [expression |-> Get(rl, "expression", None),
     action |-> Get(rl, "action", None),
     description |-> Get(rl, "description", None),
     total_requests |-> r.total_requests,
     matched |-> r.matched,
     match_rate |-> r.match_rate,
     would_block |-> r.would_block,
     would_challenge |-> r.would_challenge,
     would_log |-> r.would_log,
     potential_false_positives |-> Len(r.false_positive_candidates),
     false_positive_rate_estimate |-> r.false_positive_rate_estimate,
     warning |-> r.false_positive_rate_estimate > 10 * 100]

(***************************************************************************)
(* The two programs: log_analyzer.main and simulation.main                 *)
(***************************************************************************)
Init ==
    /\ logs \in Corpora
    /\ \/ pc = "log_analyzer" /\ rule = <<>>
       \/ pc = "simulation" /\ rule \in Rules
    /\ analysis = <<>>
    /\ results = <<>>
    /\ idx = 0
    /\ calls = 0
    /\ returned = <<>>
    /\ report = <<>>

\* analyzer = TrafficAnalyzer(logs); a ValueError of the constructor ends main
NewTrafficAnalyzer ==
    /\ pc = "log_analyzer"
    /\ IF TimestampRaises(logs)
       THEN /\ pc' = "error"
            /\ UNCHANGED <<analysis, idx>>
       ELSE /\ pc' = "analyze"
            /\ analysis' = NewAnalysis(logs)
            /\ idx' = 1
    /\ UNCHANGED <<logs, rule, results, calls, returned, report>>

\* analyze(): one turn of `for log in self.logs`
AnalyzeLogEntry ==
    /\ pc = "analyze"
    /\ idx <= Len(logs)
    /\ analysis' = AnalyzeLogEntryOp(analysis, logs[idx])
    /\ idx' = idx + 1
    /\ UNCHANGED <<pc, logs, rule, results, calls, returned, report>>

\* a percentage of the anomalies is a division by zero
AnomaliesRaise(a) ==
    \E i \in 1..Len(a.anomalies) :
        /\ "percentage" \in DOMAIN a.anomalies[i]
        /\ a.anomalies[i].percentage = ZeroDivisionError

\* analyze(): self._detect_anomalies(); a ZeroDivisionError ends main
DetectAnomalies ==
    /\ pc = "analyze"
    /\ idx > Len(logs)
    /\ IF AnomaliesRaise(DetectAnomaliesOp(analysis))
       THEN /\ pc' = "error"
            /\ UNCHANGED analysis
       ELSE /\ pc' = "recommend"
            /\ analysis' = DetectAnomaliesOp(analysis)
    /\ UNCHANGED <<logs, rule, results, idx, calls, returned, report>>

\* analyze(): self._generate_recommendations(); return self.analysis
GenerateRecommendations ==
    /\ pc = "recommend"
    /\ analysis' = GenerateRecommendationsOp(analysis)
    /\ returned' = Append(returned, analysis')
    /\ calls' = calls + 1
    /\ pc' = "analyzed"
    /\ UNCHANGED <<logs, rule, results, idx, report>>

\* print(analyzer.generate_report())
GenerateReport ==
    /\ pc = "analyzed"
    /\ report' = AnalyzerReport(analysis)
    /\ pc' = "done"
    /\ UNCHANGED <<logs, rule, analysis, results, idx, calls, returned>>

\* simulator = RuleSimulator(logs, rule)
NewRuleSimulator ==
    /\ pc = "simulation"
    /\ results' = NewResults(logs)
    /\ idx' = 1
    /\ pc' = "simulate"
    /\ UNCHANGED <<logs, rule, analysis, calls, returned, report>>

\* simulate(): one turn of `for log in self.logs`
SimulateEntry ==
    /\ pc = "simulate"
    /\ idx <= Len(logs)
    /\ results' = SimulateEntryOp(results, rule, logs[idx])
    /\ idx' = idx + 1
    /\ UNCHANGED <<pc, logs, rule, analysis, calls, returned, report>>

\* one of the two rates is a division by zero
RatesRaise(r) ==
    \/ MatchRate(r) = ZeroDivisionError
    \/ FalsePositiveRateEstimate(r) = ZeroDivisionError

\* simulate(): the rates; return self.results; a ZeroDivisionError ends main
SimulateRates ==
    /\ pc = "simulate"
    /\ idx > Len(logs)
    /\ IF RatesRaise(results)
       THEN /\ pc' = "error"
            /\ UNCHANGED <<results, returned, calls>>
       ELSE /\ pc' = "simulated"
            /\ results' = CalculateRates(results)
            /\ returned' = Append(returned, results')
            /\ calls' = calls + 1
    /\ UNCHANGED <<logs, rule, analysis, idx, report>>

\* print(simulator.generate_report())
SimulationReport ==
    /\ pc = "simulated"
    /\ report' = SimulatorReport(results, rule)
    /\ pc' = "done"
    /\ UNCHANGED <<logs, rule, analysis, results, idx, calls, returned>>

Next ==
    \/ NewTrafficAnalyzer
    \/ AnalyzeLogEntry
    \/ DetectAnomalies
    \/ GenerateRecommendations
    \/ GenerateReport
    \/ NewRuleSimulator
    \/ SimulateEntry
    \/ SimulateRates
    \/ SimulationReport

\* the programs as main() runs them: one analyze() / simulate() per object
Spec == Init /\ [][Next]_vars

\* a caller invokes analyze() once more on the TrafficAnalyzer it holds
AnalyzeAgain ==
    /\ pc = "analyzed"
    /\ calls < MaxCalls
    /\ pc' = "analyze"
    /\ idx' = 1
    /\ UNCHANGED <<logs, rule, analysis, results, calls, returned, report>>

\* a caller invokes simulate() once more on the RuleSimulator it holds
SimulateAgain ==
    /\ pc = "simulated"
    /\ calls < MaxCalls
    /\ pc' = "simulate"
    /\ idx' = 1
    /\ UNCHANGED <<logs, rule, analysis, results, calls, returned, report>>

NextReuse == Next \/ AnalyzeAgain \/ SimulateAgain

\* the classes as a library: the object may be used for several invocations
ReuseSpec == Init /\ [][NextReuse]_vars

(***************************************************************************)
(* Properties                                                              *)
(***************************************************************************)
\* a RuleSimulator exists
Simulating == results # <<>>

\* a TrafficAnalyzer exists
Analyzing == analysis # <<>>

\* C1: at every point of simulate (after each processed entry, and in the returned
\* result) would_block + would_challenge + would_log = matched, whatever the rule's
\* action is
C1_TalliesSumToMatched ==
    Simulating =>
        results.would_block + results.would_challenge + results.would_log = results.matched

\* C1 witness: simulate returned after matching several entries under a rule that has
\* no action, and under one whose action is not a recognised one
C1_Witness ==
    /\ pc = "simulated"
    /\ results.matched >= 2
    /\ results.would_log = results.matched
    /\ Get(rule, "action", "allow") = "allow"

\* C2: every invocation of analyze / simulate on the same object returns the same
\* result as the first one: nothing is carried over from one invocation to the next
C2_SameResultEveryInvocation ==
    \A i \in 1..Len(returned) : returned[i] = returned[1]

\* rank of a severity in the order CRITICAL > HIGH > MEDIUM
SeverityRank(severity) ==
    CASE severity = "CRITICAL" -> 3
      [] severity = "HIGH"     -> 2
      [] severity = "MEDIUM"   -> 1

\* C3: in the analysis report no anomaly is printed before one of higher severity
C3_ReportSortedBySeverity ==
    (pc = "done" /\ Analyzing) =>
        \A i, j \in 1..Len(report.anomalies) :
            i < j => SeverityRank(report.anomalies[i].severity)
                        >= SeverityRank(report.anomalies[j].severity)

\* the recommendations made for anomalies of one type
RecommendationsTargeting(type) ==
    SelectSeq(analysis.recommendations, LAMBDA rec : rec["for"] = type)

\* the anomalies of one type
AnomaliesOfType(type) ==
    SelectSeq(analysis.anomalies, LAMBDA anomaly : anomaly.type = type)

\* analyze() has returned
Analyzed == Analyzing /\ pc \in {"analyzed", "done"}

\* C4: each anomaly of one of the five pattern categories gets exactly one
\* recommendation, with action block and priority HIGH
C4_PatternAnomaliesGetBlock ==
    Analyzed =>
        \A n \in 1..Len(PatternNames) :
            /\ Len(RecommendationsTargeting(PatternNames[n])) = Len(AnomaliesOfType(PatternNames[n]))
            /\ \A k \in 1..Len(RecommendationsTargeting(PatternNames[n])) :
                  /\ RecommendationsTargeting(PatternNames[n])[k].action = "block"
                  /\ RecommendationsTargeting(PatternNames[n])[k].priority = "HIGH"

\* C5: a potential_ddos anomaly gets exactly one recommendation, rate_limit / CRITICAL /
\* 100 requests per 10 seconds scoped to ip.src; a bot_spike anomaly gets exactly one,
\* challenge / MEDIUM; a high_error_rate anomaly gets none
C5_VolumetricRecommendations ==
    Analyzed =>
        /\ Len(RecommendationsTargeting("potential_ddos")) = Len(AnomaliesOfType("potential_ddos"))
        /\ \A k \in 1..Len(RecommendationsTargeting("potential_ddos")) :
              /\ RecommendationsTargeting("potential_ddos")[k].action = "rate_limit"
              /\ RecommendationsTargeting("potential_ddos")[k].priority = "CRITICAL"
              /\ RecommendationsTargeting("potential_ddos")[k].params =
                    [rate |-> <<100, "requests per", 10, "seconds">>, scope |-> "ip.src"]
        /\ Len(RecommendationsTargeting("bot_spike")) = Len(AnomaliesOfType("bot_spike"))
        /\ \A k \in 1..Len(RecommendationsTargeting("bot_spike")) :
              /\ RecommendationsTargeting("bot_spike")[k].action = "challenge"
              /\ RecommendationsTargeting("bot_spike")[k].priority = "MEDIUM"
        /\ RecommendationsTargeting("high_error_rate") = <<>>

\* C5 witness: analyze returned with one anomaly of each of the three types, and the
\* two recommendations
C5_Witness ==
    /\ Analyzed
    /\ Len(AnomaliesOfType("potential_ddos")) = 1
    /\ Len(AnomaliesOfType("bot_spike")) = 1
    /\ Len(AnomaliesOfType("high_error_rate")) = 1
    /\ Len(analysis.recommendations) = 2

\* C6: on an empty corpus neither program ends in an error, each runs to its end, no
\* anomaly and no recommendation is made, and both rates are 0
C6_EmptyCorpus ==
    logs = <<>> =>
        /\ pc # "error"
        /\ pc = "done" \/ ENABLED Next
        /\ Analyzing => analysis.anomalies = <<>> /\ analysis.recommendations = <<>>
        /\ (Simulating /\ pc \in {"simulated", "done"}) =>
              /\ results.match_rate = 0
              /\ results.false_positive_rate_estimate = 0

\* C6 witness: simulate returned on the empty corpus, under a rule with an expression
C6_Witness ==
    /\ logs = <<>>
    /\ pc = "simulated"
    /\ "expression" \in DOMAIN rule
    /\ results.total_requests = 0
    /\ results.match_rate = 0

\* the percentages of the model are hundredths of a percent
InPercentRange(p) == 0 <= p /\ p <= 100 * 100

\* C7: on a non-empty corpus every percentage is in [0, 100]: those of the anomalies,
\* match_rate and false_positive_rate_estimate; no pattern is counted more often than
\* there are requests, and there are no more false-positive candidates than matches
C7_PercentagesInRange ==
    logs # <<>> =>
        /\ Analyzing =>
              /\ \A i \in 1..Len(analysis.anomalies) :
                    "percentage" \in DOMAIN analysis.anomalies[i]
                        => InPercentRange(analysis.anomalies[i].percentage)
              /\ \A i \in 1..Len(analysis.patterns) :
                    analysis.patterns[i].n <= analysis.total_requests
        /\ Simulating =>
              /\ Len(results.false_positive_candidates) <= results.matched
              /\ results.matched <= results.total_requests
              /\ "match_rate" \in DOMAIN results =>
                    /\ InPercentRange(results.match_rate)
                    /\ InPercentRange(results.false_positive_rate_estimate)

\* C7 witness: simulate returned with every entry matched and every match a
\* false-positive candidate, so both rates are 100
C7_Witness ==
    /\ pc = "simulated"
    /\ Len(logs) >= 2
    /\ results.match_rate = 100 * 100
    /\ results.false_positive_rate_estimate = 100 * 100

\* the frequency tables of the analysis
FrequencyTables ==
    {"ip_stats", "path_stats", "status_code_stats", "country_stats", "asn_stats",
     "user_agent_stats"}

\* C8: in the result analyze returns, the values of each frequency table sum to
\* total_requests
C8_TablesSumToTotal ==
    Analyzed =>
        \A table \in FrequencyTables : SumValues(analysis[table]) = analysis.total_requests

\* C8 witness: analyze returned on a corpus of several entries, one of them without
\* any field, which the tables count under the defaults
C8_Witness ==
    /\ Analyzed
    /\ analysis.total_requests >= 2
    /\ \E i \in 1..Len(logs) : logs[i] = LogEmpty
    /\ Count(analysis.country_stats, "Unknown") >= 1
    /\ Count(analysis.status_code_stats, 0) >= 1

\* length of the longest corpus of the model
LargestCorpus ==
    CHOOSE n \in {Len(c) : c \in Corpora} : \A c \in Corpora : Len(c) <= n

\* C9: the matched-request summaries that are kept are capped: however many entries
\* match, fewer are kept than the longest corpus has entries
C9_SampleCapped ==
    Simulating => Len(results.matched_requests) < LargestCorpus

\* the rule's expression holds the fragment contains ".." and its action is block
DotDotBlockRule ==
    /\ Contains(Get(rule, "expression", <<>>),
          <<"c", "o", "n", "t", "a", "i", "n", "s", " ", "\"", ".", ".", "\"">>)
    /\ Get(rule, "action", "log") = "block"

\* the path or the query of the entry holds ".."
HasDotDot(log) ==
    \/ Contains(Get(log, "path", <<>>), <<".", ".">>)
    \/ Contains(Get(log, "query", <<>>), <<".", ".">>)

\* the path or the query of the entry holds %2e%2e, in either case of the letter
HasEncodedDotDot(log) ==
    \E e \in {"e", "E"}, f \in {"e", "E"} :
        \/ Contains(Get(log, "path", <<>>), <<"%", "2", e, "%", "2", f>>)
        \/ Contains(Get(log, "query", <<>>), <<"%", "2", e, "%", "2", f>>)

\* the entry matches through one of the other families the expression names
OtherFamilyMatches(log) ==
    LET expression == Get(rule, "expression", <<>>)
    IN  \/ SqlFamily(expression, log)
        \/ XssFamily(expression, log)
        \/ ThreatFamily(expression, log)
        \/ BotFamily(expression, log)
        \/ CountryFamily(expression, log)

\* number of entries of the corpus that satisfy Test
NumberOf(Test(_)) == Cardinality({i \in 1..Len(logs) : Test(logs[i])})

\* C10 as stated: under such a rule the matched entries are exactly those whose path
\* or query holds "..", and each is counted into would_block
C10_MatchedIffDotDot ==
    (pc = "simulated" /\ DotDotBlockRule) =>
        /\ results.matched = NumberOf(HasDotDot)
        /\ results.would_block = results.matched

\* C10 amended: under such a rule every entry whose path or query holds ".." is matched,
\* every match is counted into would_block, and an entry is left unmatched exactly when
\* it holds neither ".." nor %2e%2e (in either case) and matches through no other
\* family the expression names
C10_MatchedIffDotDotOrEncoded ==
    (pc = "simulated" /\ DotDotBlockRule) =>
        /\ results.matched =
              NumberOf(LAMBDA log : HasDotDot(log) \/ HasEncodedDotDot(log) \/ OtherFamilyMatches(log))
        /\ results.would_block = results.matched
        /\ results.would_challenge = 0
        /\ results.would_log = 0

\* C10 witness: simulate returned under such a rule on a corpus with an entry that holds
\* "..", one that holds only %2e%2e and one that holds neither: two are matched
C10_Witness ==
    /\ pc = "simulated"
    /\ DotDotBlockRule
    /\ \E i, j, k \in 1..Len(logs) :
          /\ HasDotDot(logs[i])
          /\ ~HasDotDot(logs[j]) /\ HasEncodedDotDot(logs[j])
          /\ ~HasDotDot(logs[k]) /\ ~HasEncodedDotDot(logs[k]) /\ ~OtherFamilyMatches(logs[k])
    /\ results.would_block = 2
    /\ Len(logs) = 3

\* the fragments _evaluate_expression looks for in an expression
RecognizedFragments ==
    { <<"c", "o", "n", "t", "a", "i", "n", "s", " ", "\"", ".", ".", "\"">>,
      <<"c", "o", "n", "t", "a", "i", "n", "s", " ", "\"", "%", "2", "e", "%", "2", "e", "\"">>,
      <<"u", "n", "i", "o", "n", " ", "s", "e", "l", "e", "c", "t">>,
      <<"d", "r", "o", "p", " ", "t", "a", "b", "l", "e">>,
      <<"<", "s", "c", "r", "i", "p", "t">>,
      <<"j", "a", "v", "a", "s", "c", "r", "i", "p", "t", ":">>,
      <<"c", "f", ".", "t", "h", "r", "e", "a", "t", "_", "s", "c", "o", "r", "e">>,
      <<"c", "f", ".", "b", "o", "t", "_", "m", "a", "n", "a", "g", "e", "m", "e", "n", "t",
        ".", "s", "c", "o", "r", "e">>,
      <<"i", "p", ".", "g", "e", "o", "i", "p", ".", "c", "o", "u", "n", "t", "r", "y">> }

\* the rule's expression is missing or holds none of the recognized fragments
UnrecognizedExpression == ~ContainsAny(Get(rule, "expression", <<>>), RecognizedFragments)

\* the rule's action is missing or is none of block and the three challenges
UnrecognizedAction ==
    Get(rule, "action", None) \notin {"block", "challenge", "js_challenge", "managed_challenge"}

\* C11: the simulation never ends in an error; under an expression that holds none of
\* the recognized fragments no entry is matched; under an action that is missing or not
\* one of block / challenge / js_challenge / managed_challenge every matched entry is
\* counted into would_log
C11_UnrecognizedRuleInput ==
    Simulating =>
        /\ pc # "error"
        /\ UnrecognizedExpression =>
              results.matched = 0 /\ results.matched_requests = <<>>
        /\ UnrecognizedAction =>
              /\ results.would_log = results.matched
              /\ results.would_block = 0
              /\ results.would_challenge = 0

\* C11 witness: simulate returned with nothing matched, under an expression that is not
\* empty and holds no recognized fragment, on a corpus with a traversal entry that the
\* traversal rule matches
C11_Witness ==
    /\ pc = "simulated"
    /\ UnrecognizedExpression
    /\ Get(rule, "expression", <<>>) # <<>>
    /\ \E i \in 1..Len(logs) : HasDotDot(logs[i])
    /\ Len(logs) >= 2
    /\ results.matched = 0
    /\ results.match_rate = 0

\* no entry of the corpus carries a timestamp that parses: each timestamp is missing,
\* empty, or not ISO-8601
NoParseableTimestamp ==
    \A i \in 1..Len(logs) :
        "timestamp" \in DOMAIN logs[i] => logs[i]["timestamp"].kind # "iso"

\* C12: when no entry carries a parseable timestamp, constructing the analyzer and
\* running the analysis does not fail, the time window is empty and the duration the
\* report gives is 0
C12_UnparseableTimestampsDegrade ==
    (NoParseableTimestamp /\ ~Simulating /\ pc # "simulation") =>
        /\ pc # "error"
        /\ Analyzing => analysis.time_window = <<>>
        /\ (Analyzing /\ pc = "done") => report.duration = 0

\* the entries of ls whose position is in S, in the order of ls
Pick(ls, S) == SelectSeq([i \in 1..Len(ls) |-> <<i, ls[i]>>], LAMBDA e : e[1] \in S)

\* the corpus is one of the enumerated ones, not one of the long ones
Short(ls) == Len(ls) <= MaxLogs

\* the corpora obtained from a short corpus by removing entries: its sub-sequences
Removals(ls) ==
    {[i \in 1..Len(Pick(ls, S)) |-> Pick(ls, S)[i][2]] : S \in SUBSET (1..Len(ls))}

\* the rule's expression matches the entry
Matches(log) == EvaluateExpression(Get(rule, "expression", <<>>), log)

\* C13: in the result simulate returns, matched is the number of entries the expression
\* matches and the candidates are those of them the false-positive heuristic holds for;
\* false_positive_rate_estimate is candidates / matched x 100 (to two decimals) when
\* matched > 0 and 0 when matched = 0; and the simulation of the same rule on any
\* sub-sequence of a short corpus never has a larger matched
C13_FalsePositiveRate ==
    pc = "simulated" =>
        /\ results.matched = NumberOf(Matches)
        /\ Len(results.false_positive_candidates) =
              NumberOf(LAMBDA log : Matches(log) /\ IsPotentialFalsePositive(log))
        /\ results.matched = 0 => results.false_positive_rate_estimate = 0
        /\ results.matched > 0 =>
              /\ 2 * results.matched * results.false_positive_rate_estimate
                    <= 2 * 10000 * Len(results.false_positive_candidates) + results.matched
              /\ 2 * results.matched * results.false_positive_rate_estimate
                    >= 2 * 10000 * Len(results.false_positive_candidates) - results.matched
        /\ Short(logs) =>
              \A sub \in Removals(logs) :
                  /\ Simulate(sub, rule).matched <= results.matched
                  /\ Simulate(sub, rule).matched = 0
                        => Simulate(sub, rule).false_positive_rate_estimate = 0

\* C13 witness: simulate returned with three matches, one of them a candidate, so the
\* estimate is 33.33; without the first entry two are matched
C13_Witness ==
    /\ pc = "simulated"
    /\ results.matched = 3
    /\ Len(results.false_positive_candidates) = 1
    /\ results.false_positive_rate_estimate = 3333
    /\ Simulate(Tail(logs), rule).matched = 2
    /\ Simulate(Tail(logs), rule).false_positive_rate_estimate = 50 * 100

\* the address at position i of ip_stats has more than 5 times the average number
\* of requests per address
AboveFiveTimesAverage(i) ==
    analysis.ip_stats[i].n * Len(analysis.ip_stats) > 5 * analysis.total_requests

\* the address at position i of ip_stats is one of the 10 with the highest counts
\* (among equal counts, the address seen first comes first)
AmongTopTen(i) ==
    Cardinality({j \in 1..Len(analysis.ip_stats) :
        \/ analysis.ip_stats[j].n > analysis.ip_stats[i].n
        \/ analysis.ip_stats[j].n = analysis.ip_stats[i].n /\ j < i}) < 10

\* the positions of the addresses the potential-DDoS detector is to flag
FlaggedAddresses ==
    {i \in 1..Len(analysis.ip_stats) : AmongTopTen(i) /\ AboveFiveTimesAverage(i)}

\* C14: after analyze, ip_stats counts the entries of each address; a potential_ddos
\* anomaly is emitted iff some address is among the 10 with the highest counts and has
\* strictly more than 5 x (total / number of distinct addresses) requests; there is one
\* at most, it is CRITICAL, its count is the number of those addresses, and its details
\* are at most 5 of them, each with its count and none twice
C14_PotentialDdos ==
    Analyzed =>
        /\ \A i \in 1..Len(analysis.ip_stats) :
              analysis.ip_stats[i].n =
                  NumberOf(LAMBDA log : Get(log, "clientIP", <<>>) = analysis.ip_stats[i].k)
        /\ Len(AnomaliesOfType("potential_ddos")) = IF FlaggedAddresses = {} THEN 0 ELSE 1
        /\ \A a \in 1..Len(AnomaliesOfType("potential_ddos")) :
              LET anomaly == AnomaliesOfType("potential_ddos")[a]
              IN  /\ anomaly.severity = "CRITICAL"
                  /\ anomaly.count = Cardinality(FlaggedAddresses)
                  /\ Len(anomaly.details) <= 5
                  /\ Len(anomaly.details) =
                        IF anomaly.count < 5 THEN anomaly.count ELSE 5
                  /\ \A d \in 1..Len(anomaly.details) :
                        \E i \in FlaggedAddresses :
                            /\ anomaly.details[d].ip = analysis.ip_stats[i].k
                            /\ anomaly.details[d].requests = analysis.ip_stats[i].n
                  /\ \A d, f \in 1..Len(anomaly.details) :
                        anomaly.details[d].ip = anomaly.details[f].ip => d = f

\* C14 witness: analyze returned one potential_ddos anomaly that counts more than 5
\* addresses and carries 5, while an address with exactly 5 times the average, which
\* is among the 10 with the highest counts, is not flagged
C14_Witness ==
    /\ Analyzed
    /\ Len(AnomaliesOfType("potential_ddos")) = 1
    /\ AnomaliesOfType("potential_ddos")[1].count > 5
    /\ Len(AnomaliesOfType("potential_ddos")[1].details) = 5
    /\ \E i \in 1..Len(analysis.ip_stats) :
          /\ analysis.ip_stats[i].n * Len(analysis.ip_stats) = 5 * analysis.total_requests
          /\ AmongTopTen(i)
          /\ i \notin FlaggedAddresses

\* number of entries whose path or query matches the category
HitCount(name) ==
    NumberOf(LAMBDA log : \/ PatternSearch(name, Get(log, "path", <<>>))
                          \/ PatternSearch(name, Get(log, "query", <<>>)))

\* p is the hundredth of a percent nearest to part / whole x 100
IsPercentageOf(p, part, whole) ==
    /\ 2 * whole * p <= 2 * 10000 * part + whole
    /\ 2 * whole * p >= 2 * 10000 * part - whole

\* C15: after analyze, each pattern category has an anomaly iff some entry's path or
\* query matches it, and one at most; its count is the number of those entries, its
\* percentage is count / total x 100 (to two decimals), and its severity is CRITICAL
\* for sql_injection and command_injection and HIGH for the other categories
C15_PatternAnomalies ==
    Analyzed =>
        \A n \in 1..Len(PatternNames) :
            /\ Count(analysis.patterns, PatternNames[n]) = HitCount(PatternNames[n])
            /\ Len(AnomaliesOfType(PatternNames[n])) =
                  IF HitCount(PatternNames[n]) > 0 THEN 1 ELSE 0
            /\ \A a \in 1..Len(AnomaliesOfType(PatternNames[n])) :
                  LET anomaly == AnomaliesOfType(PatternNames[n])[a]
                  IN  /\ anomaly.count = HitCount(PatternNames[n])
                      /\ IsPercentageOf(anomaly.percentage, anomaly.count,
                                        analysis.total_requests)
                      /\ anomaly.severity =
                            IF PatternNames[n] \in {"sql_injection", "command_injection"}
                            THEN "CRITICAL" ELSE "HIGH"

\* C15 witness: analyze returned on 100 entries of which 30 hold a traversal and none
\* matches another category: the one pattern anomaly is path_traversal, count 30,
\* percentage 30.0, severity HIGH
C15_Witness ==
    /\ Analyzed
    /\ analysis.total_requests = 100
    /\ HitCount("path_traversal") = 30
    /\ \A n \in 2..Len(PatternNames) : AnomaliesOfType(PatternNames[n]) = <<>>
    /\ Len(AnomaliesOfType("path_traversal")) = 1
    /\ AnomaliesOfType("path_traversal")[1].count = 30
    /\ AnomaliesOfType("path_traversal")[1].percentage = 30 * 100
    /\ AnomaliesOfType("path_traversal")[1].severity = "HIGH"

\* number of entries whose user agent is a bot's
BotCount == NumberOf(LAMBDA log : IsBot(Get(log, "userAgent", <<>>)))

\* number of entries whose status is 400 or more
ErrorEntries == NumberOf(LAMBDA log : Get(log, "statusCode", 0) >= 400)

\* the anomalies of the type are: one MEDIUM anomaly with this count and its share of
\* the total when the share is strictly above the threshold (in percent), none otherwise
RateAnomaly(type, count, threshold) ==
    /\ Len(AnomaliesOfType(type)) =
          IF analysis.total_requests > 0 /\ count * 100 > threshold * analysis.total_requests
          THEN 1 ELSE 0
    /\ \A a \in 1..Len(AnomaliesOfType(type)) :
          /\ AnomaliesOfType(type)[a].severity = "MEDIUM"
          /\ AnomaliesOfType(type)[a].count = count
          /\ IsPercentageOf(AnomaliesOfType(type)[a].percentage, count,
                            analysis.total_requests)

\* C17: after analyze, bot_spike is emitted iff total > 0 and the share of entries with
\* a bot's user agent is strictly above 30%, high_error_rate iff total > 0 and the share
\* of entries with status >= 400 is strictly above 20%; each at most once, as MEDIUM
C17_RateDetectors ==
    Analyzed =>
        /\ RateAnomaly("bot_spike", BotCount, 30)
        /\ RateAnomaly("high_error_rate", ErrorEntries, 20)

\* C17 witness: analyze returned on a corpus with exactly 30% bots and exactly 20%
\* errors, and emitted neither anomaly
C17_Witness ==
    /\ Analyzed
    /\ analysis.total_requests > 0
    /\ BotCount * 100 = 30 * analysis.total_requests
    /\ ErrorEntries * 100 = 20 * analysis.total_requests
    /\ AnomaliesOfType("bot_spike") = <<>>
    /\ AnomaliesOfType("high_error_rate") = <<>>

\* the entries of a short corpus in every order
Reorderings(ls) == {[i \in 1..Len(ls) |-> ls[q[i]]] : q \in Permutations(1..Len(ls))}

\* two counters are equal as python dicts: the same keys with the same counts
SameTable(c, d) == Keys(c) = Keys(d) /\ \A k \in Keys(c) : Count(c, k) = Count(d, k)

\* d is c and e merged by addition
MergedTable(d, c, e) ==
    /\ Keys(d) = Keys(c) \cup Keys(e)
    /\ \A k \in Keys(d) : Count(d, k) = Count(c, k) + Count(e, k)

\* the tallies of a simulation
Tallies == {"matched", "would_block", "would_challenge", "would_log"}

\* C16: the results do not depend on the order of the entries: an analysis of the
\* entries of a short corpus in any other order has the same frequency tables and
\* pattern hit counts and
\* the same lists of anomalies and recommendations, and a simulation of them has the
\* same tallies, candidate count and rates; and for every split of the corpus in two
\* parts, the tables, hit counts, tallies and candidate counts of the parts add up to
\* those of the whole
C16_OrderIndependent ==
    /\ (Analyzed /\ Short(logs)) =>
          /\ \A p \in Reorderings(logs) :
                /\ \A table \in FrequencyTables \cup {"patterns"} :
                      SameTable(Analyze(p)[table], analysis[table])
                /\ Analyze(p).anomalies = analysis.anomalies
                /\ Analyze(p).recommendations = analysis.recommendations
          /\ \A n \in 0..Len(logs) :
                \A table \in FrequencyTables \cup {"patterns"} :
                    MergedTable(analysis[table],
                                Analyze(SubSeq(logs, 1, n))[table],
                                Analyze(SubSeq(logs, n + 1, Len(logs)))[table])
    /\ (pc = "simulated" /\ Short(logs)) =>
          /\ \A p \in Reorderings(logs) :
                /\ \A tally \in Tallies : Simulate(p, rule)[tally] = results[tally]
                /\ Len(Simulate(p, rule).false_positive_candidates)
                      = Len(results.false_positive_candidates)
                /\ Simulate(p, rule).match_rate = results.match_rate
                /\ Simulate(p, rule).false_positive_rate_estimate
                      = results.false_positive_rate_estimate
          /\ \A n \in 0..Len(logs) :
                /\ \A tally \in Tallies :
                      Simulate(SubSeq(logs, 1, n), rule)[tally]
                        + Simulate(SubSeq(logs, n + 1, Len(logs)), rule)[tally] = results[tally]
                /\ Len(Simulate(SubSeq(logs, 1, n), rule).false_positive_candidates)
                      + Len(Simulate(SubSeq(logs, n + 1, Len(logs)), rule).false_positive_candidates)
                      = Len(results.false_positive_candidates)
====
